---------------------------- MODULE Spec2Model ----------------------------
(***************************************************************************)
(* Model of the two lab programs of the repository:                        *)
(*   UART/UART_main.c  - Transmit_UART_Data, the EUSCI_A2 transmit main,   *)
(*                       and the external loopback test (UART_Ramp_Data,   *)
(*                       Validate_UART_Loopback, main)                     *)
(*   SPI/SPI_main.c    - Change_Counter_Speed and the Nokia 5110 main      *)
(* The peripheral drivers (GPIO, EUSCI_A2_UART, printf, Nokia5110, Clock)  *)
(* are external: a button read returns any byte, OutChar puts a byte on    *)
(* the line, InChar blocks until the line delivers a byte.                 *)
(***************************************************************************)
EXTENDS Integers, Sequences, FiniteSets, TLC

(* ------------------------------ constants ------------------------------ *)

\* #define BUFFER_LENGTH 255
BUFFER_LENGTH == 255

\* uint8_t value range
Byte == 0 .. 255

\* Data memory that holds TX_Buffer, RX_Buffer and the byte after each.
MemCells == 0 .. 511

(* ------------------------------- bounds -------------------------------- *)

\* idle iterations of the loopback main loop that are followed after the test
MaxIdle == 2
\* largest amount added to a byte by the line when it corrupts it
MaxDelta == 1
\* iterations of the transmit main loop / the LCD main loop that are followed
MaxIters == 2

VARIABLES
    pc,            \* position of the running program
    layout,        \* how the linker placed TX_Buffer and RX_Buffer
    mem,           \* data memory holding both buffers
    run_once,      \* main: uint8_t run_once
    i,             \* loop variable of UART_Ramp_Data / Validate_UART_Loopback
    line,          \* byte last put on the EUSCI_A2 line by OutChar
    chanTrace,     \* EUSCI_A2 operations so far: <<"send", b>> / <<"recv", b>>
    console,       \* printf output so far: <<"PAIR"|"MISMATCH", tx, rx>>
    faultAt,       \* ramp index whose echo the line corrupted, or -1
    noise,         \* the line may corrupt a byte (at most one in a run)
    chanDead,      \* the line has stopped delivering bytes
    idleIters,     \* main-loop iterations made with run_once = 0
    button_status, \* last value returned by Get_Buttons_Status()
    tx_data,       \* value returned by the last Transmit_UART_Data()
    callOuts,      \* bytes passed to OutChar by the last Transmit_UART_Data()
    UART_TX_Data,  \* transmit main: uint8_t UART_TX_Data
    counter,       \* LCD main: uint32_t counter
    clock_delay,   \* LCD main: uint16_t clock_delay
    ccsRet,        \* value returned by the last Change_Counter_Speed()
    delayArg,      \* argument of the last Clock_Delay1ms()
    lcd,           \* Nokia 5110 text cells written by the main loop
    iters,         \* main-loop iterations completed (transmit / LCD main)
    overruns       \* buffer accesses outside 0 .. BUFFER_LENGTH-1 so far

vars == << pc, layout, mem, run_once, i, line, chanTrace, console, faultAt,
           noise, chanDead, idleIters, button_status, tx_data,
           callOuts, UART_TX_Data, counter, clock_delay, ccsRet, delayArg,
           lcd, iters, overruns >>

a2Vars   == << tx_data, callOuts, UART_TX_Data >>
lcdVars  == << counter, clock_delay, ccsRet, delayArg, lcd >>

(* ------------------------ memory and the buffers ----------------------- *)

\* uint8_t TX_Buffer[BUFFER_LENGTH]; uint8_t RX_Buffer[BUFFER_LENGTH];
\* Both are byte arrays (alignment 1), so the linker may put one directly
\* after the other in either order, or pad each to a word boundary.
Layouts == {"TX_RX", "RX_TX", "PADDED"}

TXBase(l) == IF l = "RX_TX" THEN BUFFER_LENGTH ELSE 0
RXBase(l) == IF l = "TX_RX" THEN BUFFER_LENGTH
             ELSE IF l = "PADDED" THEN BUFFER_LENGTH + 1 ELSE 0

\* address of TX_Buffer[k] / RX_Buffer[k]
TXAddr(k) == TXBase(layout) + k
RXAddr(k) == RXBase(layout) + k

\* TX_Buffer[k] / RX_Buffer[k] read from memory m
TXAt(m, k) == m[TXAddr(k)]
RXAt(m, k) == m[RXAddr(k)]

\* index k is outside the declared capacity of a uint8_t [BUFFER_LENGTH]
OutOfBounds(k) == k < 0 \/ k >= BUFFER_LENGTH

\* the record of an access to element k of a buffer, kept when out of bounds
Overrun(buf, kind, k) ==
    IF OutOfBounds(k) THEN << << buf, kind, k >> >> ELSE << >>

\* conversion of the int loop variable to uint8_t
ToU8(n) == n % 256

(* ------------------------------ loopback ------------------------------- *)

InitLoopback ==
    /\ pc = "main"
    /\ layout \in Layouts
    /\ mem = [a \in MemCells |-> 0]
    /\ run_once = 1
    /\ i = 0
    /\ line = 0
    /\ chanTrace = << >>
    /\ console = << >>
    /\ faultAt = -1
    /\ noise \in BOOLEAN
    /\ chanDead = FALSE
    /\ idleIters = 0
    /\ button_status = 0
    /\ tx_data = 0
    /\ callOuts = << >>
    /\ UART_TX_Data = 0
    /\ counter = 0
    /\ clock_delay = 0
    /\ ccsRet = 0
    /\ delayArg = 0
    /\ lcd = [row3 |-> 0, row5 |-> -1]
    /\ iters = 0
    /\ overruns = << >>

\* variant: the latch is not cleared before the ramp starts
MainRunOnce_NoLatch ==
    /\ pc = "main"
    /\ run_once = 1
    /\ i' = 0
    /\ pc' = "ramp_send"
    /\ UNCHANGED << layout, mem, run_once, line, chanTrace, console, faultAt,
                    noise, chanDead, idleIters, button_status,
                    iters, overruns >>
    /\ UNCHANGED a2Vars /\ UNCHANGED lcdVars

\* main: if (run_once == 0x01) { run_once = 0x00; UART_Ramp_Data(); ... }
MainRunOnce ==
    /\ pc = "main"
    /\ run_once = 1
    /\ run_once' = 0
    /\ i' = 0
    /\ pc' = "ramp_send"
    /\ UNCHANGED << layout, mem, line, chanTrace, console, faultAt,
                    noise, chanDead, idleIters, button_status,
                    iters >>
    /\ UNCHANGED a2Vars /\ UNCHANGED lcdVars
    /\ UNCHANGED overruns

\* main: a while(1) iteration whose if (run_once == 0x01) is false
MainIdle ==
    /\ pc = "main"
    /\ run_once # 1
    /\ idleIters < MaxIdle
    /\ idleIters' = idleIters + 1
    /\ UNCHANGED << pc, layout, mem, run_once, i, line, chanTrace, console,
                    faultAt, noise, chanDead, button_status, iters >>
    /\ UNCHANGED a2Vars /\ UNCHANGED lcdVars
    /\ UNCHANGED overruns

\* variant: the loop condition i < BUFFER_LENGTH
LoopCond_Strict(n) == n < BUFFER_LENGTH

\* the loop condition of both for loops: i <= BUFFER_LENGTH
LoopCond(n) == n <= BUFFER_LENGTH

\* variant: the ramp starts at 1
RampByte_FromOne(n) == ToU8(n + 1)

\* the byte UART_Ramp_Data passes to EUSCI_A2_UART_OutChar in iteration n
RampByte(n) == ToU8(n)

\* UART_Ramp_Data: TX_Buffer[i] = i; EUSCI_A2_UART_OutChar(i);
RampSend ==
    /\ pc = "ramp_send"
    /\ LoopCond(i)
    /\ mem' = [mem EXCEPT ![TXAddr(i)] = ToU8(i)]
    /\ line' = RampByte(i)
    /\ chanTrace' = Append(chanTrace, << "send", RampByte(i) >>)
    /\ pc' = "ramp_recv"
    /\ UNCHANGED << layout, run_once, i, console, faultAt, noise,
                    chanDead, idleIters, button_status, iters >>
    /\ UNCHANGED a2Vars /\ UNCHANGED lcdVars
    /\ overruns' = overruns \o Overrun("TX", "write", i)

\* what the line can deliver in place of a byte b when it corrupts it
Corrupted(b) == { (b + d) % 256 : d \in 1 .. MaxDelta }

\* the loop variable after one iteration: i++
NextIndex(n) == n + 1

\* EUSCI_A2_UART_InChar() can return: it blocks until the line delivers
InCharReady == ~chanDead

\* variant: the receive register is read without waiting for a byte
RampRecv_NoWait ==
    /\ pc = "ramp_recv"
    /\ \E b \in {line} \cup (IF noise /\ faultAt = -1
                            THEN Corrupted(line) ELSE {}) :
          /\ mem' = [mem EXCEPT ![RXAddr(i)] = b]
          /\ chanTrace' = Append(chanTrace, << "recv", b >>)
          /\ faultAt' = IF b = line THEN faultAt ELSE i
    /\ i' = NextIndex(i)
    /\ pc' = "ramp_send"
    /\ UNCHANGED << layout, run_once, line, console, noise, chanDead,
                    idleIters, button_status, iters >>
    /\ UNCHANGED a2Vars /\ UNCHANGED lcdVars
    /\ overruns' = overruns \o Overrun("RX", "write", i)

\* UART_Ramp_Data: RX_Buffer[i] = EUSCI_A2_UART_InChar(); i++
\* The line echoes the byte sent, or corrupts it (at most once in a run).
RampRecv ==
    /\ pc = "ramp_recv"
    /\ InCharReady
    /\ \E b \in {line} \cup (IF noise /\ faultAt = -1
                            THEN Corrupted(line) ELSE {}) :
          /\ mem' = [mem EXCEPT ![RXAddr(i)] = b]
          /\ chanTrace' = Append(chanTrace, << "recv", b >>)
          /\ faultAt' = IF b = line THEN faultAt ELSE i
    /\ i' = NextIndex(i)
    /\ pc' = "ramp_send"
    /\ UNCHANGED << layout, run_once, line, console, noise, chanDead,
                    idleIters, button_status, iters >>
    /\ UNCHANGED a2Vars /\ UNCHANGED lcdVars
    /\ overruns' = overruns \o Overrun("RX", "write", i)

\* the line stops delivering while EUSCI_A2_UART_InChar() waits
ChannelDies ==
    /\ pc = "ramp_recv"
    /\ ~chanDead
    /\ chanDead' = TRUE
    /\ UNCHANGED << pc, layout, mem, run_once, i, line, chanTrace, console,
                    faultAt, noise, idleIters, button_status, iters >>
    /\ UNCHANGED a2Vars /\ UNCHANGED lcdVars
    /\ UNCHANGED overruns

\* UART_Ramp_Data returns; main calls Validate_UART_Loopback()
RampExit ==
    /\ pc = "ramp_send"
    /\ ~LoopCond(i)
    /\ i' = 0
    /\ pc' = "validate"
    /\ UNCHANGED << layout, mem, run_once, line, chanTrace, console, faultAt,
                    noise,
                    chanDead, idleIters, button_status, iters >>
    /\ UNCHANGED a2Vars /\ UNCHANGED lcdVars
    /\ UNCHANGED overruns

\* the test of Validate_UART_Loopback: if (TX_Buffer[i] != RX_Buffer[i])
Differs(t, r) == t # r

\* the lines one iteration of Validate_UART_Loopback prints for index k
ValidateLines(m, k) ==
    << << "PAIR", TXAt(m, k), RXAt(m, k) >> >> \o
    (IF Differs(TXAt(m, k), RXAt(m, k))
     THEN << << "MISMATCH", TXAt(m, k), RXAt(m, k) >> >>
     ELSE << >>)

\* variant: the validator overwrites the received byte with the sent one
ValidateMem_Repair(m, k) == [m EXCEPT ![RXAddr(k)] = m[TXAddr(k)]]

\* memory after one iteration of Validate_UART_Loopback: nothing is stored
ValidateMem(m, k) == m

\* Validate_UART_Loopback, one iteration: printf pair; if (...) printf; i++
ValidateStep ==
    /\ pc = "validate"
    /\ LoopCond(i)
    /\ console' = console \o ValidateLines(mem, i)
    /\ mem' = ValidateMem(mem, i)
    /\ i' = NextIndex(i)
    /\ UNCHANGED << pc, layout, run_once, line, chanTrace, faultAt,
                    noise, chanDead, idleIters, button_status, iters >>
    /\ UNCHANGED a2Vars /\ UNCHANGED lcdVars
    /\ overruns' = overruns \o Overrun("TX", "read", i)
                            \o Overrun("RX", "read", i)

\* Validate_UART_Loopback returns to the while(1) of main
ValidateExit ==
    /\ pc = "validate"
    /\ ~LoopCond(i)
    /\ pc' = "main"
    /\ UNCHANGED << layout, mem, run_once, i, line, chanTrace, console,
                    faultAt, noise, chanDead, idleIters,
                    button_status, iters >>
    /\ UNCHANGED a2Vars /\ UNCHANGED lcdVars
    /\ UNCHANGED overruns

NextLoopback ==
    \/ MainRunOnce
    \/ MainIdle
    \/ RampSend
    \/ RampRecv
    \/ ChannelDies
    \/ RampExit
    \/ ValidateStep
    \/ ValidateExit

SpecLoopback == InitLoopback /\ [][NextLoopback]_vars

\* a line that echoes every byte unchanged for as long as it delivers
InitQuietLine == InitLoopback /\ noise = FALSE

\* The CPU always executes the next statement; only InChar can wait.
FairLoopback ==
    InitQuietLine /\ [][NextLoopback]_vars /\ WF_vars(NextLoopback)

(* ------------------- UART: transmit on button status ------------------- *)

\* the button-status values the two switch statements have a case for
DefinedStatus == {0, 16, 2, 18}

\* variant: case 0x12 sets tx_data but leaves out the OutChar call
Transmit_UART_Data_NoSend(bs) ==
    CASE bs = 0  -> [ret |-> 0,   outs |-> << 0 >>]
      [] bs = 16 -> [ret |-> 170, outs |-> << 170 >>]
      [] bs = 2  -> [ret |-> 70,  outs |-> << 70 >>]
      [] bs = 18 -> [ret |-> 240, outs |-> << >>]
      [] OTHER   -> [ret |-> 0,   outs |-> << >>]

\* variant: a default case that transmits the zero-initialised tx_data
Transmit_UART_Data_Default(bs) ==
    CASE bs = 0  -> [ret |-> 0,   outs |-> << 0 >>]
      [] bs = 16 -> [ret |-> 170, outs |-> << 170 >>]
      [] bs = 2  -> [ret |-> 70,  outs |-> << 70 >>]
      [] bs = 18 -> [ret |-> 240, outs |-> << 240 >>]
      [] OTHER   -> [ret |-> 0,   outs |-> << 0 >>]

\* Transmit_UART_Data: the value returned and the bytes passed to
\* EUSCI_A2_UART_OutChar, for the button status bs (0x10 = 16, 0x12 = 18,
\* 0xAA = 170, 0x46 = 70, 0xF0 = 240)
Transmit_UART_Data(bs) ==
    CASE bs = 0  -> [ret |-> 0,   outs |-> << 0 >>]
      [] bs = 16 -> [ret |-> 170, outs |-> << 170 >>]
      [] bs = 2  -> [ret |-> 70,  outs |-> << 70 >>]
      [] bs = 18 -> [ret |-> 240, outs |-> << 240 >>]
      [] OTHER   -> [ret |-> 0,   outs |-> << >>]

\* the channel operations of a sequence of OutChar calls
Sends(outs) == [n \in 1 .. Len(outs) |-> << "send", outs[n] >>]

InitA2 ==
    /\ pc = "a2_call"
    /\ layout = "PADDED"
    /\ mem = [a \in MemCells |-> 0]
    /\ run_once = 0
    /\ i = 0
    /\ line = 0
    /\ chanTrace = << >>
    /\ console = << >>
    /\ faultAt = -1
    /\ noise = FALSE
    /\ chanDead = FALSE
    /\ idleIters = 0
    /\ button_status = 0
    /\ tx_data = 0
    /\ callOuts = << >>
    /\ UART_TX_Data = 0
    /\ counter = 0
    /\ clock_delay = 0
    /\ ccsRet = 0
    /\ delayArg = 0
    /\ lcd = [row3 |-> 0, row5 |-> -1]
    /\ iters = 0
    /\ overruns = << >>

\* main (USE_EUSCI_A2_UART): UART_TX_Data = Transmit_UART_Data();
A2Transmit ==
    /\ pc = "a2_call"
    /\ iters < MaxIters
    /\ \E bs \in Byte :
          /\ button_status' = bs
          /\ tx_data' = Transmit_UART_Data(bs).ret
          /\ callOuts' = Transmit_UART_Data(bs).outs
          /\ chanTrace' = chanTrace \o Sends(Transmit_UART_Data(bs).outs)
          /\ line' = IF Transmit_UART_Data(bs).outs = << >>
                     THEN line ELSE Transmit_UART_Data(bs).outs[1]
          /\ UART_TX_Data' = Transmit_UART_Data(bs).ret
    /\ pc' = "a2_delay"
    /\ UNCHANGED << layout, mem, run_once, i, console, faultAt,
                    noise, chanDead, idleIters, iters >>
    /\ UNCHANGED lcdVars
    /\ UNCHANGED overruns

\* main (USE_EUSCI_A2_UART): Clock_Delay1ms(100);
A2Delay ==
    /\ pc = "a2_delay"
    /\ delayArg' = 100
    /\ iters' = iters + 1
    /\ pc' = "a2_call"
    /\ UNCHANGED << layout, mem, run_once, i, line, chanTrace, console,
                    faultAt, noise, chanDead, idleIters,
                    button_status, counter, clock_delay, ccsRet, lcd >>
    /\ UNCHANGED a2Vars
    /\ UNCHANGED overruns

NextA2 ==
    \/ A2Transmit
    \/ A2Delay

SpecA2 == InitA2 /\ [][NextA2]_vars

(* ---------------------- SPI: counter on the LCD ------------------------ *)

\* variant: the delays of 0x10 and 0x02 exchanged
Change_Counter_Speed_Swapped(bs) ==
    CASE bs = 0  -> 1000
      [] bs = 16 -> 3000
      [] bs = 2  -> 200
      [] bs = 18 -> 1000
      [] OTHER   -> 0

\* Change_Counter_Speed: the delay returned for the button status bs
Change_Counter_Speed(bs) ==
    CASE bs = 0  -> 1000
      [] bs = 16 -> 200
      [] bs = 2  -> 3000
      [] bs = 18 -> 1000
      [] OTHER   -> 0

\* the argument main passes to Clock_Delay1ms: Clock_Delay1ms(clock_delay)
DelayArgument(d) == d

InitLCD ==
    /\ pc = "lcd_call"
    /\ layout = "PADDED"
    /\ mem = [a \in MemCells |-> 0]
    /\ run_once = 0
    /\ i = 0
    /\ line = 0
    /\ chanTrace = << >>
    /\ console = << >>
    /\ faultAt = -1
    /\ noise = FALSE
    /\ chanDead = FALSE
    /\ idleIters = 0
    /\ button_status = 0
    /\ tx_data = 0
    /\ callOuts = << >>
    /\ UART_TX_Data = 0
    /\ counter = 0
    /\ clock_delay = 0
    /\ ccsRet = 0
    /\ delayArg = 0
    /\ lcd = [row3 |-> 0, row5 |-> -1]
    /\ iters = 0
    /\ overruns = << >>

\* main (USE_NOKIA_LCD): uint16_t clock_delay = Change_Counter_Speed();
LCDDecode ==
    /\ pc = "lcd_call"
    /\ iters < MaxIters
    /\ \E bs \in Byte :
          /\ button_status' = bs
          /\ ccsRet' = Change_Counter_Speed(bs)
          /\ clock_delay' = Change_Counter_Speed(bs)
    /\ pc' = "lcd_show"
    /\ UNCHANGED << layout, mem, run_once, i, line, chanTrace, console,
                    faultAt, noise, chanDead, idleIters, counter,
                    delayArg, lcd, iters >>
    /\ UNCHANGED a2Vars
    /\ UNCHANGED overruns

\* main (USE_NOKIA_LCD): counter = counter + 1; Nokia5110_OutUDec(counter)
\* at (0, 3); "Delay" "=" and Nokia5110_OutUDec(clock_delay) at row 5
LCDShow ==
    /\ pc = "lcd_show"
    /\ counter' = counter + 1
    /\ lcd' = [row3 |-> counter + 1, row5 |-> clock_delay]
    /\ pc' = "lcd_delay"
    /\ UNCHANGED << layout, mem, run_once, i, line, chanTrace, console,
                    faultAt, noise, chanDead, idleIters,
                    button_status, clock_delay, ccsRet, delayArg, iters >>
    /\ UNCHANGED a2Vars
    /\ UNCHANGED overruns

\* main (USE_NOKIA_LCD): Clock_Delay1ms(clock_delay);
LCDDelay ==
    /\ pc = "lcd_delay"
    /\ delayArg' = DelayArgument(clock_delay)
    /\ iters' = iters + 1
    /\ pc' = "lcd_call"
    /\ UNCHANGED << layout, mem, run_once, i, line, chanTrace, console,
                    faultAt, noise, chanDead, idleIters,
                    button_status, counter, clock_delay, ccsRet, lcd >>
    /\ UNCHANGED a2Vars
    /\ UNCHANGED overruns

NextLCD ==
    \/ LCDDecode
    \/ LCDShow
    \/ LCDDelay

SpecLCD == InitLCD /\ [][NextLCD]_vars

\* both button decoders: either build may be the one that runs
InitDecoders == InitA2 \/ InitLCD

NextDecoders ==
    \/ A2Transmit
    \/ A2Delay
    \/ LCDDecode
    \/ LCDShow
    \/ LCDDelay

SpecDecoders == InitDecoders /\ [][NextDecoders]_vars

(* ============================== properties ============================= *)

\* the transmit table of the Transmit_UART_Data comment block
TransmitTable == (0 :> 0) @@ (16 :> 170) @@ (2 :> 70) @@ (18 :> 240)

\* the delay table of the Change_Counter_Speed comment block
DelayTable == (0 :> 1000) @@ (16 :> 200) @@ (2 :> 3000) @@ (18 :> 1000)

\* C3: for each of the four defined button-status values one call of
\* Transmit_UART_Data returns the byte of the table (0x00->0x00, 0x10->0xAA,
\* 0x02->0x46, 0x12->0xF0) and has called EUSCI_A2_UART_OutChar exactly
\* once, with that byte, which is then the last byte on the line.
C3_TransmitMapped ==
    (pc = "a2_delay" /\ button_status \in DefinedStatus) =>
        /\ tx_data = TransmitTable[button_status]
        /\ UART_TX_Data = tx_data
        /\ callOuts = << tx_data >>
        /\ Len(chanTrace) >= 1
        /\ chanTrace[Len(chanTrace)] = << "send", tx_data >>
        /\ line = tx_data

C3_Witness ==
    /\ pc = "a2_delay"
    /\ button_status = 18
    /\ tx_data = 240
    /\ callOuts = << 240 >>
    /\ iters = 1
    /\ chanTrace = << << "send", 170 >>, << "send", 240 >> >>

\* C4: for every button-status value outside {0x00, 0x10, 0x02, 0x12}
\* Transmit_UART_Data returns 0x00 without calling OutChar (the channel
\* trace is as long as the number of earlier transmitting calls allows, the
\* line is untouched), and Change_Counter_Speed returns 0.
C4_UndefinedStatus ==
    /\ (pc = "a2_delay" /\ button_status \notin DefinedStatus) =>
          /\ tx_data = 0
          /\ UART_TX_Data = 0
          /\ callOuts = << >>
          /\ Len(chanTrace) <= iters
    /\ (pc \in {"lcd_show", "lcd_delay"}
          /\ button_status \notin DefinedStatus) =>
          /\ ccsRet = 0
          /\ clock_delay = 0

\* a call that returned 0x00 and transmitted (status 0x00) followed by a
\* call that returned 0x00 and transmitted nothing (status 0x01)
C4_Witness ==
    /\ pc = "a2_delay"
    /\ iters = 1
    /\ button_status = 1
    /\ tx_data = 0
    /\ callOuts = << >>
    /\ chanTrace = << << "send", 0 >> >>

\* C5: for each defined button-status value Change_Counter_Speed returns
\* the delay of the table; the value passed to Clock_Delay1ms is the value
\* Change_Counter_Speed returned in that iteration; the counter has grown
\* by exactly 1 in every iteration and row 3 of the display shows it.
C5_DelayAndCounter ==
    /\ (pc \in {"lcd_show", "lcd_delay"}
          /\ button_status \in DefinedStatus) =>
          ccsRet = DelayTable[button_status]
    /\ (pc = "lcd_call" /\ iters > 0) =>
          /\ delayArg = ccsRet
          /\ (button_status \in DefinedStatus =>
                 delayArg = DelayTable[button_status])
    /\ pc = "lcd_call"  => counter = iters
    /\ pc = "lcd_show"  => counter = iters
    /\ pc = "lcd_delay" => counter = iters + 1 /\ lcd.row3 = counter
                           /\ lcd.row5 = ccsRet

C5_Witness ==
    /\ pc = "lcd_call"
    /\ iters = 2
    /\ counter = 2
    /\ button_status = 2
    /\ delayArg = 3000
    /\ lcd = [row3 |-> 2, row5 |-> 3000]

(* ------------------------------ loopback ------------------------------- *)

\* the loopback test has run to the end and main is in its idle loop
Done == pc = "main" /\ run_once = 0

\* UART_Ramp_Data has returned
RampDone == pc = "validate" \/ Done

IsMismatch(l) == l[1] = "MISMATCH"
IsPair(l) == l[1] = "PAIR"
Mismatches == SelectSeq(console, IsMismatch)
Pairs == SelectSeq(console, IsPair)

\* number of iterations of each loop
Iterations == BUFFER_LENGTH + 1

\* the claim of C1: on a line that echoes every byte unchanged, after
\* UART_Ramp_Data TX_Buffer[k] = k and RX_Buffer[k] = TX_Buffer[k] for every
\* k in 0 .. 255
IdealBuffers ==
    \A k \in 0 .. BUFFER_LENGTH :
        TXAt(mem, k) = ToU8(k) /\ RXAt(mem, k) = TXAt(mem, k)

\* C1: with an echo that never corrupts, once UART_Ramp_Data has returned
\* the TX sequence is 0, 1, ..., 255 and RX equals TX at every index the
\* loop visits, and the validation prints no MISMATCH line.
C1_IdealLoopback ==
    (RampDone /\ faultAt = -1) =>
        /\ IdealBuffers
        /\ Mismatches = << >>

\* C1 does hold in the builds whose linker leaves a byte after each buffer
C1_IdealLoopbackPadded ==
    layout = "PADDED" => C1_IdealLoopback

\* the byte the line delivered for ramp index k
Received(k) == chanTrace[2 * k + 2][2]

\* C2: if the echo is corrupted at index k only, the validation prints
\* exactly one MISMATCH line, directly after the pair line of index k and
\* with the byte sent and the corrupted byte, and a pair line for every
\* index 0 .. 255.
C2_SingleFault ==
    (Done /\ faultAt # -1) =>
        /\ Received(faultAt) # ToU8(faultAt)
        /\ Len(Pairs) = Iterations
        /\ Mismatches = << << "MISMATCH", ToU8(faultAt), Received(faultAt) >> >>
        /\ console[faultAt + 2] = Mismatches[1]
        /\ \A k \in 0 .. BUFFER_LENGTH :
              k # faultAt =>
                 console[IF k < faultAt THEN k + 1 ELSE k + 2]
                     = << "PAIR", ToU8(k), ToU8(k) >>

\* C2 does hold in the builds whose linker leaves a byte after each buffer
C2_SingleFaultPadded ==
    layout = "PADDED" => C2_SingleFault

\* C6: run_once is cleared on the first iteration of main before the ramp
\* starts and is never set again; the ramp and the validation run at most
\* once (256 sends, 256 receives, 256 pair lines); once main idles with
\* run_once = 0 no byte is sent, received, stored or printed any more.
C6_RunOnceLatch ==
    /\ [](run_once \in {0, 1})
    /\ []((pc # "main" \/ chanTrace # << >> \/ console # << >>)
             => run_once = 0)
    /\ [](Len(chanTrace) <= 2 * Iterations /\ Len(Pairs) <= Iterations)
    /\ [][run_once = 0 => run_once' = 0]_vars
    /\ [][Done => (pc' = "main" /\ UNCHANGED << mem, line, chanTrace,
                                               console, overruns >>)]_vars

C6_Witness ==
    /\ Done
    /\ idleIters = 2
    /\ Len(chanTrace) = 512
    /\ Len(Pairs) = 256

\* what Validate_UART_Loopback prints for the indices lo .. hi of memory m
RECURSIVE ValidateRange(_, _, _)
ValidateRange(m, lo, hi) ==
    IF lo > hi THEN << >>
    ELSE IF lo = hi THEN ValidateLines(m, lo)
    ELSE ValidateRange(m, lo, (lo + hi) \div 2)
            \o ValidateRange(m, (lo + hi) \div 2 + 1, hi)

\* C7: no step of Validate_UART_Loopback changes the memory that holds
\* TX_Buffer and RX_Buffer, and a second validation over the buffers as the
\* first one left them prints exactly the lines the first printed.
C7_ValidatorReadsOnly ==
    /\ [][pc = "validate" => mem' = mem]_vars
    /\ [](Done => console = ValidateRange(mem, 0, BUFFER_LENGTH))

C7_Witness ==
    /\ Done
    /\ layout = "PADDED"
    /\ faultAt = 7
    /\ Len(console) = 257
    /\ console[9] = << "MISMATCH", 7, 8 >>

\* C8: once the line has stopped delivering, the program stays in that
\* InChar for ever: no state changes, one more byte was sent than received
\* and nothing was printed.  If every receive returns, the ramp ends and the
\* validation runs to completion.
C8_BlockingReceive ==
    /\ [](chanDead => /\ pc = "ramp_recv"
                      /\ console = << >>
                      /\ Len(chanTrace) = 2 * i + 1)
    /\ [][~chanDead]_vars
    /\ <>(chanDead \/ (Done /\ Len(Pairs) = Iterations))

C8_Witness ==
    /\ chanDead
    /\ i = 100
    /\ Len(chanTrace) = 201
    /\ console = << >>

\* operation number n of the ramp: send(k) for n = 2k+1, a receive for 2k+2
RampOp(n, op) ==
    IF n % 2 = 1 THEN op = << "send", (n - 1) \div 2 >>
    ELSE op[1] = "recv" /\ op[2] \in Byte

\* C9: the channel operations of the ramp are send(0), receive, send(1),
\* receive, ..., send(255), receive: the trace only grows, by one operation
\* at a time, a send when as many bytes were received as sent and a receive
\* otherwise, and send number k+1 carries byte k; and nothing is printed
\* before the receive of index 255 has returned.
C9_AlternatingTrace ==
    /\ [][chanTrace' # chanTrace =>
             /\ chanTrace' = Append(chanTrace, chanTrace'[Len(chanTrace')])
             /\ RampOp(Len(chanTrace'), chanTrace'[Len(chanTrace')])]_vars
    /\ [](Len(chanTrace) <= 2 * Iterations)
    /\ [](pc = "ramp_recv" <=> Len(chanTrace) % 2 = 1)
    /\ []((pc = "validate" /\ i = 0) =>
             /\ Len(chanTrace) = 2 * Iterations
             /\ \A n \in 1 .. Len(chanTrace) : RampOp(n, chanTrace[n]))
    /\ [](console # << >> => Len(chanTrace) = 2 * Iterations)

C9_Witness ==
    /\ pc = "validate"
    /\ i = 1
    /\ Len(chanTrace) = 512
    /\ chanTrace[511] = << "send", 255 >>
    /\ Len(console) >= 1

\* the out-of-bounds accesses of one complete run
ExpectedOverruns ==
    << << "TX", "write", BUFFER_LENGTH >>, << "RX", "write", BUFFER_LENGTH >>,
       << "TX", "read", BUFFER_LENGTH >>,  << "RX", "read", BUFFER_LENGTH >> >>

\* the accesses past the capacity are those of index 255, one per buffer and
\* loop, and the byte stored for index i is i itself
OverrunAtLastIndex ==
    /\ Len(overruns) <= 4
    /\ overruns = SubSeq(ExpectedOverruns, 1, Len(overruns))
    /\ pc = "ramp_recv" =>
          /\ i \in 0 .. BUFFER_LENGTH
          /\ mem[TXAddr(i)] = i
          /\ (i = BUFFER_LENGTH => mem[TXAddr(i)] # 0)
    /\ (pc = "validate" /\ i = 0) => Len(overruns) = 2
    /\ Done => /\ Len(overruns) = 4
               /\ Len(chanTrace) = 2 * Iterations
               /\ Len(Pairs) = Iterations
               /\ Iterations = 256

\* C10 as stated: ..., and the loop variable never reaches 256
C10_NeverReaches256 ==
    /\ OverrunAtLastIndex
    /\ i # BUFFER_LENGTH + 1

\* C10 as amended: each loop runs 256 iterations over 0 .. 255 and accesses
\* index 255 of both buffers, one element past their capacity; the loop
\* variable is 256 only where the loop condition has failed and no element
\* is accessed, so the byte stored is never a wrapped one.
C10_Overrun ==
    /\ OverrunAtLastIndex
    /\ i \in 0 .. BUFFER_LENGTH + 1
    /\ i = BUFFER_LENGTH + 1 =>
          /\ ~LoopCond(i)
          /\ pc \in {"ramp_send", "validate", "main"}

C10_Witness ==
    /\ pc = "ramp_send"
    /\ i = 256
    /\ overruns = << << "TX", "write", 255 >>, << "RX", "write", 255 >> >>
    /\ mem[TXAddr(255)] = 255

=============================================================================
